---- MODULE Spec2Model ----
(***************************************************************************)
(* Model of NightWalkCanvas (night-walk/src/components/night-walk-canvas   *)
(* .tsx): the capture controller (handleRecord, the MediaRecorder          *)
(* callbacks it registers, the 10 s timeout, the effect cleanup keyed on   *)
(* downloadUrl) and the cycle-progress computation of the draw callback.   *)
(*                                                                         *)
(* Environment, as the code relies on it:                                  *)
(*  - React 18 scheduling. State updates made inside the click handler are *)
(*    flushed (render, commit, effect cleanups) before the next event, so  *)
(*    the flush is part of the click action. Updates made from encoder     *)
(*    callbacks are batched and committed by a later Render step; until    *)
(*    then the click handler still closes over the values of the last      *)
(*    commit (variable rendered).                                          *)
(*  - MediaRecorder as in the W3C MediaStream Recording specification:     *)
(*    stop() on an inactive recorder does nothing; stop() on a recording   *)
(*    one makes it inactive at once and queues one task that fires         *)
(*    dataavailable and then stop; an encoder error makes the recorder     *)
(*    inactive and fires error, dataavailable and stop in one task, so no  *)
(*    other event runs between them (variable inTask).                     *)
(*  - Timer ids and object URLs are identified with small naturals; the    *)
(*    timer of session s has id s, 0 stands for null.                      *)
(***************************************************************************)
EXTENDS Integers, Sequences, FiniteSets, TLC

\* ---- bounds of the model
MaxSessions == 2
MaxDataEvents == 1
MaxStart == 2
MaxElapsed == 1500
MaxFrameGap == 20

\* ---- program constants
WALK_CYCLE_MS == 1400

Sessions == 1..MaxSessions
Urls == 1..MaxSessions

MsgInitial == "Enjoy the nighttime walk. Record a clip when you are ready."
MsgUnsupported == "Recording isn't supported in this browser."
MsgProgress == "Recording in progress... capturing a 10 second loop."
MsgNoData == "No data captured. Try recording again."
MsgReady == "Clip ready! Use the download button to save your video."
MsgFailed == "Recording failed. Please try again or use a different browser."
MsgUnavailable == "Recording is unavailable. Check browser support for MediaRecorder."

VARIABLES
  captureSupported,   \* 'captureStream' in canvas (fixed by the browser)
  mounted,            \* the component is mounted
  recorderState,      \* useState: "idle" | "recording" (latest value)
  downloadUrl,        \* useState: 0 (null) or an object URL (latest value)
  message,            \* useState: status text (latest value)
  rendered,           \* values of the last commit, seen by closures
  recorderRef,        \* recorderRef.current: 0 or a session
  pendingTimeoutRef,  \* pendingTimeoutRef.current: 0 or a timer id
  nextSession,        \* MediaRecorders constructed so far
  nextUrl,            \* object URLs minted so far
  enc,                \* MediaRecorder.state per session
  chunks,             \* the chunks array of each session's closure
  stopPending,        \* the encoder's dataavailable+stop task is queued
  timerArmed,         \* the session's setTimeout has neither fired nor been cleared
  inTask,             \* session whose error task is between error and stop, or 0
  live,               \* object URLs minted and not revoked
  resource,           \* the blob content behind each object URL
  arrived,            \* history: every blob event delivered to a session
  onstopCount,        \* history: onstop invocations per session
  minted,             \* history: object URLs minted per session
  stoppedBy,          \* history: what made the session's encoder inactive
  errored,            \* history: onerror ran for the session
  lastEvent,          \* history: the handler that ran last
  startTimeRef,       \* startTimeRef.current
  timestamp,          \* argument of the last draw callback, -1 before the first
  elapsed,            \* draw: elapsed
  cycleProgress       \* draw: numerator of cycleProgress over WALK_CYCLE_MS

captureVars == <<captureSupported, mounted, recorderState, downloadUrl, message,
                 rendered, recorderRef, pendingTimeoutRef, nextSession, nextUrl,
                 enc, chunks, stopPending, timerArmed, inTask, live, resource,
                 arrived, onstopCount, minted, stoppedBy, errored, lastEvent>>
animVars == <<startTimeRef, timestamp, elapsed, cycleProgress>>
vars == <<captureVars, animVars>>

\* ---- pure helpers

\* JavaScript's % : the remainder takes the sign of the dividend.
JsRem(a, b) == IF a >= 0 THEN a % b ELSE -((-a) % b)

CycleProgressNum_Mut(ts, start) == JsRem(ts - start, WALK_CYCLE_MS + 1)
\* draw: (elapsed % WALK_CYCLE_MS) / WALK_CYCLE_MS, as its numerator.
CycleProgressNum(ts, start) == JsRem(ts - start, WALK_CYCLE_MS)

KeepChunk_Mut(size) == TRUE
\* ondataavailable: if (event.data.size > 0)
KeepChunk(size) == size > 0

IsRecordingBranch_Mut == FALSE
\* handleRecord: if (recorderState === 'recording'), on the closure's value
IsRecordingBranch == rendered.recorderState = "recording"

\* setDownloadUrl updater: if (current) URL.revokeObjectURL(current)
RevokeCurrent(lv, current) == lv \ {current}

UpdaterResult_Mut(current) == current
\* setDownloadUrl updater: return null
UpdaterResult(current) == 0

\* A blob event of session s: its arrival index and its size.
Chunk(s, k, size) == [sess |-> s, idx |-> k, size |-> size]

\* ---- effect cleanup keyed on downloadUrl, as functions of the values it reads
\* recorderRef.current?.state === 'recording'
CleanupTargets(ref, e) == IF ref # 0 /\ e[ref] = "recording" THEN {ref} ELSE {}
CleanupEnc(ref, e) == [s \in Sessions |-> IF s \in CleanupTargets(ref, e) THEN "inactive" ELSE e[s]]
CleanupStopPending(ref, e, sp) == [s \in Sessions |-> sp[s] \/ s \in CleanupTargets(ref, e)]
CleanupStoppedBy(ref, e, sb, cause) ==
  [s \in Sessions |-> IF s \in CleanupTargets(ref, e) THEN cause ELSE sb[s]]
\* if (pendingTimeoutRef.current) window.clearTimeout(pendingTimeoutRef.current)
CleanupTimers(ptr, ta) == [s \in Sessions |-> ta[s] /\ s # ptr]
\* if (downloadUrl) URL.revokeObjectURL(downloadUrl), on the closure's value
CleanupLive(url, lv) == lv \ {url}

InitCapture ==
  /\ captureSupported \in BOOLEAN
  /\ mounted = TRUE
  /\ recorderState = "idle"
  /\ downloadUrl = 0
  /\ message = MsgInitial
  /\ rendered = [recorderState |-> "idle", downloadUrl |-> 0]
  /\ recorderRef = 0
  /\ pendingTimeoutRef = 0
  /\ nextSession = 0
  /\ nextUrl = 0
  /\ enc = [s \in Sessions |-> "none"]
  /\ chunks = [s \in Sessions |-> <<>>]
  /\ stopPending = [s \in Sessions |-> FALSE]
  /\ timerArmed = [s \in Sessions |-> FALSE]
  /\ inTask = 0
  /\ live = {}
  /\ resource = [u \in Urls |-> <<>>]
  /\ arrived = [s \in Sessions |-> <<>>]
  /\ onstopCount = [s \in Sessions |-> 0]
  /\ minted = [s \in Sessions |-> {}]
  /\ stoppedBy = [s \in Sessions |-> "none"]
  /\ errored = [s \in Sessions |-> FALSE]
  /\ lastEvent = [kind |-> "mount", sess |-> 0]

\* The first effect has run: startTimeRef.current = performance.now(); no frame
\* has been drawn yet.
InitAnim(starts) ==
  /\ startTimeRef \in starts
  /\ timestamp = -1
  /\ elapsed = 0
  /\ cycleProgress = 0

Init == InitCapture /\ InitAnim({0})

InitAnimation == InitCapture /\ InitAnim(0..MaxStart)

Ev(k, s) == [kind |-> k, sess |-> s]

\* ---- handleRecord, one action per path through it.  Each action runs to the
\* ---- end of the click event, which includes the synchronous flush of the
\* ---- state updates the handler made.

CanClick == mounted /\ inTask = 0

\* if (!('captureStream' in canvas)) { setMessage(...); return; }
ClickUnsupported ==
  /\ CanClick
  /\ ~captureSupported
  /\ message' = MsgUnsupported
  /\ lastEvent' = Ev("clickUnsupported", 0)
  /\ UNCHANGED <<captureSupported, mounted, recorderState, downloadUrl, rendered,
                 recorderRef, pendingTimeoutRef, nextSession, nextUrl, enc, chunks,
                 stopPending, timerArmed, inTask, live, resource, arrived,
                 onstopCount, minted, stoppedBy, errored>>
  /\ UNCHANGED animVars

\* if (recorderState === 'recording') { recorderRef.current?.stop(); return; }
ClickStop ==
  /\ CanClick
  /\ captureSupported
  /\ IsRecordingBranch
  /\ LET hit == recorderRef # 0 /\ enc[recorderRef] = "recording"
     IN /\ enc' = IF hit THEN [enc EXCEPT ![recorderRef] = "inactive"] ELSE enc
        /\ stopPending' = IF hit THEN [stopPending EXCEPT ![recorderRef] = TRUE]
                          ELSE stopPending
        /\ stoppedBy' = IF hit THEN [stoppedBy EXCEPT ![recorderRef] = "user"]
                        ELSE stoppedBy
  /\ lastEvent' = Ev("clickStop", recorderRef)
  /\ UNCHANGED <<captureSupported, mounted, recorderState, downloadUrl, message,
                 rendered, recorderRef, pendingTimeoutRef, nextSession, nextUrl,
                 chunks, timerArmed, inTask, live, resource, arrived, onstopCount,
                 minted, errored>>
  /\ UNCHANGED animVars

ClickCtorThrows_Mut ==
  /\ CanClick
  /\ captureSupported
  /\ ~IsRecordingBranch
  /\ message' = MsgUnavailable
  /\ downloadUrl' = 0
  /\ live' = RevokeCurrent(live, downloadUrl)
  /\ rendered' = [rendered EXCEPT !.downloadUrl = 0]
  /\ lastEvent' = Ev("clickCtorThrows", 0)
  /\ UNCHANGED <<captureSupported, mounted, recorderState, recorderRef,
                 pendingTimeoutRef, nextSession, nextUrl, enc, chunks, stopPending,
                 timerArmed, inTask, resource, arrived, onstopCount, minted,
                 stoppedBy, errored>>
  /\ UNCHANGED animVars
\* new MediaRecorder(...) throws: nothing of the try block has run; the catch
\* reports the message.
ClickCtorThrows ==
  /\ CanClick
  /\ captureSupported
  /\ ~IsRecordingBranch
  /\ message' = MsgUnavailable
  /\ lastEvent' = Ev("clickCtorThrows", 0)
  /\ UNCHANGED <<captureSupported, mounted, recorderState, downloadUrl, rendered,
                 recorderRef, pendingTimeoutRef, nextSession, nextUrl, enc, chunks,
                 stopPending, timerArmed, inTask, live, resource, arrived,
                 onstopCount, minted, stoppedBy, errored>>
  /\ UNCHANGED animVars

\* The try block from recorderRef.current = recorder on.  With startThrows,
\* recorder.start() throws: the state updates before it stand, the timeout is
\* not armed and the catch replaces the message.  The flush then commits
\* recorderState and downloadUrl; when the committed downloadUrl changes
\* (it was non-null), the effect cleanup of the previous commit runs.
StartAttempt(startThrows) ==
  /\ CanClick
  /\ captureSupported
  /\ ~IsRecordingBranch
  /\ nextSession < MaxSessions
  /\ LET s == nextSession + 1
         e1 == [enc EXCEPT ![s] = IF startThrows THEN "inactive" ELSE "recording"]
         ta1 == [timerArmed EXCEPT ![s] = ~startThrows]
         ptr1 == IF startThrows THEN pendingTimeoutRef ELSE s
         lv1 == RevokeCurrent(live, downloadUrl)
         changed == rendered.downloadUrl # UpdaterResult(downloadUrl)
     IN /\ nextSession' = s
        /\ recorderRef' = s
        /\ recorderState' = "recording"
        /\ message' = IF startThrows THEN MsgUnavailable ELSE MsgProgress
        /\ downloadUrl' = UpdaterResult(downloadUrl)
        /\ pendingTimeoutRef' = ptr1
        /\ chunks' = [chunks EXCEPT ![s] = <<>>]
        /\ rendered' = [recorderState |-> "recording",
                         downloadUrl |-> UpdaterResult(downloadUrl)]
        /\ enc' = IF changed THEN CleanupEnc(s, e1) ELSE e1
        /\ stopPending' = IF changed THEN CleanupStopPending(s, e1, stopPending)
                          ELSE stopPending
        /\ stoppedBy' = IF changed THEN CleanupStoppedBy(s, e1, stoppedBy, "cleanup")
                        ELSE stoppedBy
        /\ timerArmed' = IF changed THEN CleanupTimers(ptr1, ta1) ELSE ta1
        /\ live' = IF changed THEN CleanupLive(rendered.downloadUrl, lv1) ELSE lv1
        /\ lastEvent' = Ev(IF startThrows THEN "clickStartThrows" ELSE "clickStart", s)
  /\ UNCHANGED <<captureSupported, mounted, nextUrl, inTask, resource, arrived,
                 onstopCount, minted, errored>>
  /\ UNCHANGED animVars

ClickStart == StartAttempt(FALSE)
ClickStartThrows == StartAttempt(TRUE)

\* ---- the encoder's events and the handlers registered for them

\* A blob event while the encoder records: recorder.ondataavailable.
\* recorder.start() is called without a timeslice, so a conforming encoder
\* delivers its data with the stop; the handler is registered for every blob
\* event, and the model admits up to MaxDataEvents earlier ones per session.
DataAvailable(s) ==
  /\ inTask = 0
  /\ enc[s] = "recording"
  /\ Len(arrived[s]) < MaxDataEvents
  /\ \E size \in 0..1 :
       LET c == Chunk(s, Len(arrived[s]) + 1, size)
       IN /\ arrived' = [arrived EXCEPT ![s] = Append(@, c)]
          /\ chunks' = [chunks EXCEPT ![s] = IF KeepChunk(size) THEN Append(@, c) ELSE @]
  /\ lastEvent' = Ev("dataavailable", s)
  /\ UNCHANGED <<captureSupported, mounted, recorderState, downloadUrl, message,
                 rendered, recorderRef, pendingTimeoutRef, nextSession, nextUrl,
                 enc, stopPending, timerArmed, inTask, live, resource, onstopCount,
                 minted, stoppedBy, errored>>
  /\ UNCHANGED animVars

\* The task an inactivated encoder runs: the final blob event
\* (recorder.ondataavailable) and then recorder.onstop.  The setters of an
\* unmounted component do nothing; URL.createObjectURL still runs.
StopTask(s) ==
  /\ stopPending[s]
  /\ inTask \in {0, s}
  /\ \E size \in 0..1 :
       LET c == Chunk(s, Len(arrived[s]) + 1, size)
           ch == IF KeepChunk(size) THEN Append(chunks[s], c) ELSE chunks[s]
           url == nextUrl + 1
       IN /\ arrived' = [arrived EXCEPT ![s] = Append(@, c)]
          /\ chunks' = [chunks EXCEPT ![s] = ch]
          /\ IF Len(ch) = 0
             THEN /\ message' = IF mounted THEN MsgNoData ELSE message
                  /\ UNCHANGED <<downloadUrl, nextUrl, live, resource, minted>>
             ELSE /\ nextUrl' = url
                  /\ live' = live \cup {url}
                  /\ resource' = [resource EXCEPT ![url] = ch]
                  /\ minted' = [minted EXCEPT ![s] = @ \cup {url}]
                  /\ downloadUrl' = IF mounted THEN url ELSE downloadUrl
                  /\ message' = IF mounted THEN MsgReady ELSE message
  /\ recorderState' = IF mounted THEN "idle" ELSE recorderState
  /\ stopPending' = [stopPending EXCEPT ![s] = FALSE]
  /\ onstopCount' = [onstopCount EXCEPT ![s] = @ + 1]
  /\ inTask' = 0
  /\ lastEvent' = Ev("stop", s)
  /\ UNCHANGED <<captureSupported, mounted, rendered, recorderRef, pendingTimeoutRef,
                 nextSession, enc, timerArmed, stoppedBy, errored>>
  /\ UNCHANGED animVars

\* The encoder fails while recording: it becomes inactive and fires error
\* (recorder.onerror); the rest of the same task is StopTask.
ErrorEvent(s) ==
  /\ inTask = 0
  /\ enc[s] = "recording"
  /\ enc' = [enc EXCEPT ![s] = "inactive"]
  /\ stopPending' = [stopPending EXCEPT ![s] = TRUE]
  /\ stoppedBy' = [stoppedBy EXCEPT ![s] = "error"]
  /\ errored' = [errored EXCEPT ![s] = TRUE]
  /\ inTask' = s
  /\ message' = IF mounted THEN MsgFailed ELSE message
  /\ recorderState' = IF mounted THEN "idle" ELSE recorderState
  /\ lastEvent' = Ev("error", s)
  /\ UNCHANGED <<captureSupported, mounted, downloadUrl, rendered, recorderRef,
                 pendingTimeoutRef, nextSession, nextUrl, chunks, timerArmed, live,
                 resource, arrived, onstopCount, minted>>
  /\ UNCHANGED animVars

\* The setTimeout callback of session s, 10 000 ms after its start:
\* recorder.stop(); pendingTimeoutRef.current = null.
TimeoutFires(s) ==
  /\ inTask = 0
  /\ timerArmed[s]
  /\ timerArmed' = [timerArmed EXCEPT ![s] = FALSE]
  /\ LET hit == enc[s] = "recording"
     IN /\ enc' = IF hit THEN [enc EXCEPT ![s] = "inactive"] ELSE enc
        /\ stopPending' = IF hit THEN [stopPending EXCEPT ![s] = TRUE] ELSE stopPending
        /\ stoppedBy' = IF hit THEN [stoppedBy EXCEPT ![s] = "timeout"] ELSE stoppedBy
  /\ pendingTimeoutRef' = 0
  /\ lastEvent' = Ev("timeout", s)
  /\ UNCHANGED <<captureSupported, mounted, recorderState, downloadUrl, message,
                 rendered, recorderRef, nextSession, nextUrl, chunks, inTask, live,
                 resource, arrived, onstopCount, minted, errored>>
  /\ UNCHANGED animVars

\* ---- React: commit of batched updates, and unmount

\* The cleanup of the effect keyed on downloadUrl, run with the downloadUrl of
\* the commit that created it.
RunCleanup(cause) ==
  /\ enc' = CleanupEnc(recorderRef, enc)
  /\ stopPending' = CleanupStopPending(recorderRef, enc, stopPending)
  /\ stoppedBy' = CleanupStoppedBy(recorderRef, enc, stoppedBy, cause)
  /\ timerArmed' = CleanupTimers(pendingTimeoutRef, timerArmed)
  /\ live' = CleanupLive(rendered.downloadUrl, live)

\* A render that commits the updates the encoder callbacks queued.  The effect
\* cleanup runs when the committed downloadUrl differs from the previous one.
Render ==
  /\ mounted
  /\ inTask = 0
  /\ rendered # [recorderState |-> recorderState, downloadUrl |-> downloadUrl]
  /\ rendered' = [recorderState |-> recorderState, downloadUrl |-> downloadUrl]
  /\ IF rendered.downloadUrl # downloadUrl
     THEN RunCleanup("cleanup")
     ELSE UNCHANGED <<enc, stopPending, stoppedBy, timerArmed, live>>
  /\ lastEvent' = Ev("render", 0)
  /\ UNCHANGED <<captureSupported, mounted, recorderState, downloadUrl, message,
                 recorderRef, pendingTimeoutRef, nextSession, nextUrl, chunks,
                 inTask, resource, arrived, onstopCount, minted, errored>>
  /\ UNCHANGED animVars

\* The component is torn down: the effect cleanup of the last commit runs.
Unmount ==
  /\ mounted
  /\ inTask = 0
  /\ mounted' = FALSE
  /\ RunCleanup("unmount")
  /\ lastEvent' = Ev("unmount", 0)
  /\ UNCHANGED <<captureSupported, recorderState, downloadUrl, message, rendered,
                 recorderRef, pendingTimeoutRef, nextSession, nextUrl, chunks,
                 inTask, resource, arrived, onstopCount, minted, errored>>
  /\ UNCHANGED animVars

Next ==
  \/ ClickUnsupported
  \/ ClickStop
  \/ ClickCtorThrows
  \/ ClickStartThrows
  \/ ClickStart
  \/ \E s \in Sessions : DataAvailable(s)
  \/ \E s \in Sessions : StopTask(s)
  \/ \E s \in Sessions : ErrorEvent(s)
  \/ \E s \in Sessions : TimeoutFires(s)
  \/ Render
  \/ Unmount

Spec == Init /\ [][Next]_vars

\* ---- the animation loop

\* draw(timestamp): requestAnimationFrame passes the time of the frame, which
\* is not before the performance.now() read at mount and grows from frame to
\* frame.
Draw(ts) ==
  /\ timestamp' = ts
  /\ elapsed' = ts - startTimeRef
  /\ cycleProgress' = CycleProgressNum(ts, startTimeRef)
  /\ UNCHANGED startTimeRef
  /\ UNCHANGED captureVars

FrameTimes ==
  { ts \in startTimeRef..(startTimeRef + MaxElapsed) :
      /\ ts > timestamp
      /\ timestamp >= 0 => ts <= timestamp + MaxFrameGap }

NextAnim == \E ts \in FrameTimes : Draw(ts)

SpecAnim == InitAnimation /\ [][NextAnim]_vars

\* ======================= claims =======================

Recording == { s \in Sessions : enc[s] = "recording" }
ClickKinds == {"clickUnsupported", "clickStop", "clickCtorThrows",
               "clickStartThrows", "clickStart"}
NonEmptyOf(events) == SelectSeq(events, LAMBDA c : c.size > 0)
Quiescent == inTask = 0 /\ \A s \in Sessions : ~stopPending[s]

\* C1: at most one MediaRecorder is in the recording state in every reachable
\* state, and a click (handleRecord) that arrives while a session is recording
\* leaves that session stopped with its stop task queued, constructs no
\* MediaRecorder and leaves no encoder recording.
C1_SingleEncoderSession ==
  /\ [](Cardinality(Recording) <= 1)
  /\ [][ (lastEvent'.kind \in ClickKinds /\ Recording # {})
         => /\ nextSession' = nextSession
            /\ Recording' = {}
            /\ \A s \in Recording : stopPending'[s] /\ enc'[s] = "inactive" ]_vars

\* C1 witness: a second session records after a first one ended, and a click
\* has stopped a recording session.
C1_Witness ==
  /\ lastEvent.kind = "clickStop"
  /\ lastEvent.sess = 2
  /\ enc[2] = "inactive" /\ stopPending[2] /\ stoppedBy[2] = "user"
  /\ nextSession = 2

\* C2: a session is stopped only by its own timeout or by the user (or by an
\* encoder error or teardown): while the component is mounted no session is
\* stopped by the effect cleanup, and a recording encoder always has its
\* timeout armed.
C2_StoppedOnlyByTimeoutOrUser ==
  mounted =>
    \A s \in Sessions :
      /\ stoppedBy[s] # "cleanup"
      /\ enc[s] = "recording" => timerArmed[s]

\* C3: user stop and timeout are idempotent with each other: no session's
\* onstop runs twice, a finalized session with at least one buffered chunk has
\* exactly one resource, and a timeout callback changes nothing of another
\* session: neither its encoder state, nor its chunks, nor its timeout, nor the
\* handle (pendingTimeoutRef) kept for that timeout.
C3_StopIdempotent ==
  /\ [](\A s \in Sessions :
          /\ onstopCount[s] <= 1
          /\ (onstopCount[s] = 1 /\ chunks[s] # <<>>) => Cardinality(minted[s]) = 1)
  /\ [][ lastEvent'.kind = "timeout"
         => \A t \in Sessions \ {lastEvent'.sess} :
              /\ enc'[t] = enc[t]
              /\ chunks'[t] = chunks[t]
              /\ timerArmed'[t] = timerArmed[t]
              /\ (timerArmed[t] /\ pendingTimeoutRef = t) => pendingTimeoutRef' = t ]_vars

\* C4: right after a session's onstop (component mounted) the controller is
\* idle; when the session delivered no non-empty blob, downloadUrl is unset,
\* nothing was minted and the message is the no-data text; otherwise
\* downloadUrl is the single URL minted for the session, its resource is
\* exactly the session's non-empty blobs in arrival order, and the message is
\* the ready text.
C4_OnStopResult ==
  (lastEvent.kind = "stop" /\ mounted) =>
    LET s == lastEvent.sess
        data == NonEmptyOf(arrived[s])
    IN /\ recorderState = "idle"
       /\ onstopCount[s] = 1
       /\ IF data = <<>>
          THEN downloadUrl = 0 /\ minted[s] = {} /\ message = MsgNoData
          ELSE /\ minted[s] = {downloadUrl}
               /\ downloadUrl \in live
               /\ resource[downloadUrl] = data
               /\ \A i \in 1..Len(data) : data[i].sess = s
               /\ message = MsgReady

\* C4 witness: the first session left a resource, and the second session's
\* onstop built the current resource from its own single non-empty blob.
C4_Witness ==
  /\ lastEvent = Ev("stop", 2) /\ mounted
  /\ minted[1] = {1}
  /\ downloadUrl = 2
  /\ Len(arrived[2]) = 1
  /\ Len(resource[2]) = 1 /\ resource[2][1].sess = 2

\* C5: after onerror ran for a session, no resource is minted for it, and
\* while it is the latest session downloadUrl stays unset and the message is
\* not the ready text.
C5_NoResourceAfterError ==
  \A s \in Sessions :
    errored[s] =>
      /\ minted[s] = {}
      /\ (mounted /\ recorderRef = s) => (downloadUrl = 0 /\ message # MsgReady)

\* C6: while mounted at most one object URL is live, and it is the one
\* downloadUrl refers to: downloadUrl unset means no live URL, downloadUrl set
\* means exactly that URL is live; right after a start no URL is live.
C6_OneLiveResource ==
  mounted =>
    /\ Cardinality(live) <= 1
    /\ live = (IF downloadUrl = 0 THEN {} ELSE {downloadUrl})
    /\ lastEvent.kind \in {"clickStart", "clickStartThrows"} => live = {}

\* C6 witness: a second resource is live after the first one was revoked by
\* the start of the second session.
C6_Witness ==
  /\ mounted
  /\ nextUrl = 2
  /\ downloadUrl = 2
  /\ live = {2}

\* C7: after teardown, once the callbacks it triggered have run, no object URL
\* is live and no timeout is armed.
C7_TeardownReleasesAll ==
  (~mounted /\ Quiescent) =>
    /\ live = {}
    /\ \A s \in Sessions : ~timerArmed[s]

\* C8: a click that ends in the unsupported branch or in a throwing
\* MediaRecorder constructor changes the message and nothing else.
C8_FailedStartNoChange ==
  [][ lastEvent'.kind \in {"clickUnsupported", "clickCtorThrows"}
      => /\ message' = (IF lastEvent'.kind = "clickUnsupported"
                        THEN MsgUnsupported ELSE MsgUnavailable)
         /\ recorderState' = "idle" /\ recorderState = "idle"
         /\ Recording' = {}
         /\ UNCHANGED <<downloadUrl, live, rendered, recorderRef, pendingTimeoutRef,
                        nextSession, nextUrl, enc, chunks, stopPending, timerArmed,
                        resource, mounted>> ]_vars

\* C8 witness: the constructor threw while a download resource existed, and
\* the resource is still set and live.
C8_Witness ==
  /\ lastEvent.kind = "clickCtorThrows"
  /\ message = MsgUnavailable
  /\ recorderState = "idle"
  /\ downloadUrl # 0 /\ downloadUrl \in live
  /\ \A s \in Sessions : ~timerArmed[s]

C10_NeverStuckRecording ==
  (mounted /\ recorderState = "recording") =>
    /\ recorderRef # 0
    /\ enc[recorderRef] = "recording" \/ stopPending[recorderRef]

====
